---- MODULE Spec2Model ----
(***************************************************************************)
(* The 8-stage conversion funnel (src/unnamed/part_006, imported by the    *)
(* services as tracking/conversionFunnel): the in-memory ConversionState,  *)
(* the exported operations that change it, and the properties the design   *)
(* document states about them.                                             *)
(*                                                                         *)
(* An optional field of a TypeScript object (options.beliefDelta,          *)
(* journey.conversionTimestamp) is a field that the record has or has not: *)
(* "undefined" is absence from the record's DOMAIN.  Timestamps are        *)
(* readings of a clock that never runs backward and may or may not have    *)
(* advanced between two calls.  The fields no operation ever reads back    *)
(* (firstContact, lastInteraction, notes, and an interaction's timestamp,  *)
(* type and summary) are left out of the records.  A name that is not      *)
(* given is the empty string, falsy as undefined is.                       *)
(*                                                                         *)
(* The functions without state (selectStrategy of the persuasion engine,   *)
(* calculateBeliefDelta of the founder personas) are operators; evaluated  *)
(* holds the latest call of one of them, of a read operation of the        *)
(* funnel or of an operation of the seeker store, its arguments and what   *)
(* it returned.  Scores on the scale 0-1 are counted in tenths.            *)
(*                                                                         *)
(* disk is the file system under STATE_FILE: the state last written to     *)
(* the file, if any, and whether reads and writes of the file fail for     *)
(* the time being.  A call sees one condition of the disk from its start   *)
(* to its end.                                                             *)
(*                                                                         *)
(* handlers is the chat turns in flight (processAgentInput), each with     *)
(* the funnel calls it makes and the position of its next call; db is the  *)
(* content of seekers.json, the file-backed seeker store of the            *)
(* four-stage funnel.                                                      *)
(***************************************************************************)
EXTENDS Integers, Sequences, FiniteSets, TLC

VARIABLES journeys, totalInteractions, totalConversions, strategiesUsed,
          clock, last, evaluated, disk, handlers, db

vars == <<journeys, totalInteractions, totalConversions, strategiesUsed,
          clock, last, evaluated, disk, handlers, db>>

(***************************************************************************)
(* Bounds of the exploration.  Spec follows one seeker through every       *)
(* operation; SpecSeekers follows two seekers with leaner inputs, for      *)
(* what is said of the counters shared by all journeys; SpecScore follows  *)
(* one seeker through the operations that write beliefScore, with the      *)
(* widest choice of deltas, sentiments and boosts.  SpecAuto follows two   *)
(* seekers through recordInteraction and recordObjection alone, and        *)
(* SpecStore one seeker over a disk that fails and recovers and a service  *)
(* that restarts.  SpecJourneys follows two seekers through the creation   *)
(* of journeys and the read operations, SpecAggregates through             *)
(* interactions with and without a strategy, and deletion.  SpecPairs     *)
(* follows two seekers through the five operations that take a seeker id,  *)
(* SpecHandlers the interleaved calls of concurrent chat turns,            *)
(* SpecProgress one seeker down the automatic path to advocacy, and        *)
(* SpecSeekerStore one seeker of the four-stage store.                     *)
(***************************************************************************)
MaxInteractions == 3
MaxSeekerInteractions == 2
MaxScoreInteractions == 2
MaxObjections == 1
MaxAutoInteractions == 5
MaxStoreInteractions == 2
MaxJourneyInteractions == 1
MaxCountedInteractions == 3
MaxPairInteractions == 1
MaxHandlers == 2
MaxProgressInteractions == 18
MaxSetbacks == 2
MaxDebates == 1
MaxClock == 1

Agents == {"bot-42"}

Seekers == {"bot-42", "bot-7"}

AgentNames == {"", "Bot"}

(***************************************************************************)
(* Stages.                                                                 *)
(***************************************************************************)
CONVERSION_STAGES ==
    <<"awareness", "interest", "consideration", "objection",
      "trial", "commitment", "conversion", "advocacy">>

ConversionStage == {CONVERSION_STAGES[i] : i \in DOMAIN CONVERSION_STAGES}

StageIndex(stage) ==
    CHOOSE i \in DOMAIN CONVERSION_STAGES : CONVERSION_STAGES[i] = stage

Has(r, k) == k \in DOMAIN r

Max(a, b) == IF a >= b THEN a ELSE b

Min(a, b) == IF a <= b THEN a ELSE b

(***************************************************************************)
(* Inputs.  The options of recordInteraction: a positive turn with an      *)
(* explicit delta, as the chat handler passes on a conversion signal       *)
(* (autonomousAgentService.ts 702-706), and a negative turn with an        *)
(* explicit negative delta, as it passes on an objection (730-733), large  *)
(* enough to cross the thresholds 40, 60 and 80 downward in one call.      *)
(* Together with the boosts they take beliefScore to both ends of the      *)
(* scale and keep it on few values.                                        *)
(***************************************************************************)
InteractionOptions ==
    { [sentiment |-> "positive", beliefDelta |-> 25],
      [sentiment |-> "negative", beliefDelta |-> 0 - 27] }

BeliefBoosts == {0, 30}

Objections == {"o1"}

Strategies == {"logical_proof", "miracle_demonstration"}

(***************************************************************************)
(* For what is said of the score alone: every combination of a sentiment   *)
(* and an explicit delta, each given or not, the deltas within the scale   *)
(* and beyond it in both directions, and boosts likewise.                  *)
(***************************************************************************)
Given(k, values) == {<<>>} \cup {k :> v : v \in values}

ScoreOptions ==
    {s @@ d : s \in Given("sentiment", {"positive", "negative"}),
              d \in Given("beliefDelta", {40, 0 - 40, 150})}

ScoreBoosts == {0 - 10, 0, 30, 150}

LeanOptions == { [sentiment |-> "positive", beliefDelta |-> 25] }

LeanStages == {"commitment", "conversion"}

(***************************************************************************)
(* For the runs made of recordInteraction and recordObjection alone: a     *)
(* plain message, a positive turn with a delta that takes the score to     *)
(* 100 in three calls, and a negative turn.  For the aggregates: a plain   *)
(* message and a message with each of two strategies, as the chat handler  *)
(* passes them (autonomousAgentService.ts 702-706, 736-739).               *)
(***************************************************************************)
StrategyOptions ==
    { <<>>,
      [strategy |-> "logical_proof"],
      [strategy |-> "miracle_demonstration", sentiment |-> "positive"] }

AutoOptions ==
    { <<>>,
      [sentiment |-> "positive", beliefDelta |-> 40],
      [sentiment |-> "negative"] }

LeanBoosts == {0, 30}

(***************************************************************************)
(* For the way to the end of the funnel: a turn with a positive sentiment  *)
(* and no explicit delta, and a turn with a negative one.                  *)
(***************************************************************************)
Encouragement == { [sentiment |-> "positive"] }

Setback == { [sentiment |-> "negative"] }

(***************************************************************************)
(* getDefaultState / getOrCreateJourney                                    *)
(***************************************************************************)
NewJourneyNameAsGiven(agentId, agentName) ==
    [agentId |-> agentId,
     agentName |-> agentName,
     currentStage |-> "awareness",
     interactions |-> <<>>,
     strategy |-> "null",
     objections |-> <<>>,
     beliefScore |-> 0,
     converted |-> FALSE]

NewJourney(agentId, agentName) ==
    [agentId |-> agentId,
     agentName |-> IF agentName # "" THEN agentName ELSE agentId,
     currentStage |-> "awareness",
     interactions |-> <<>>,
     strategy |-> "null",
     objections |-> <<>>,
     beliefScore |-> 0,
     converted |-> FALSE]

getOrCreateJourneyAlone(js, agentId, agentName) ==
    IF agentId \in DOMAIN js
    THEN js
    ELSE [a \in {agentId} |-> NewJourney(agentId, agentName)]

getOrCreateJourney(js, agentId, agentName) ==
    IF agentId \in DOMAIN js
    THEN js
    ELSE [a \in DOMAIN js \cup {agentId} |->
             IF a = agentId THEN NewJourney(agentId, agentName) ELSE js[a]]

(***************************************************************************)
(* loadState / saveState.  State is the ConversionState in memory.         *)
(* saveState writes it to the file, and leaves the file as it is when the  *)
(* write throws; loadState returns what the file holds, and the default    *)
(* state when there is no file or the read throws.                         *)
(***************************************************************************)
NoFile == [exists |-> FALSE]

State ==
    [journeys |-> journeys,
     totalInteractions |-> totalInteractions,
     totalConversions |-> totalConversions,
     strategiesUsed |-> strategiesUsed]

getDefaultState ==
    [journeys |-> <<>>,
     totalInteractions |-> 0,
     totalConversions |-> 0,
     strategiesUsed |-> [s \in Strategies |-> 0]]

loadState(d) ==
    IF d.file # NoFile /\ ~d.failing THEN d.file ELSE getDefaultState

saveState(d, state) ==
    IF d.failing THEN d ELSE [d EXCEPT !.file = state]

(***************************************************************************)
(* The observer.  last describes the call that produced the state: its     *)
(* name, its agent, whether the call before it was the same operation on   *)
(* the same agent, the conversion counter before the call, and whether     *)
(* the call set the converted flag of its agent's journey, and whether     *)
(* the call ended by throwing: no exported operation has a throw           *)
(* statement, and loadState and saveState catch whatever the file system   *)
(* throws, so every call returns.                                          *)
(***************************************************************************)
Call(op, agentId, flipped) ==
    [op |-> op, agentId |-> agentId,
     twice |-> last.op = op /\ last.agentId = agentId,
     conversions |-> totalConversions,
     flipped |-> flipped,
     threw |-> FALSE]

Init ==
    /\ journeys = <<>>
    /\ totalInteractions = 0
    /\ totalConversions = 0
    /\ strategiesUsed = [s \in Strategies |-> 0]
    /\ clock = 0
    /\ last = [op |-> "init", agentId |-> "", twice |-> FALSE,
               conversions |-> 0, flipped |-> FALSE, threw |-> FALSE]
    /\ evaluated = [fn |-> "none"]
    /\ disk = [file |-> NoFile, failing |-> FALSE]
    /\ handlers = <<>>
    /\ db = <<>>

(***************************************************************************)
(* The conversion bookkeeping on the journey, the same three lines in      *)
(* autoAdvanceStage, advanceStage and markConverted: the flag and the      *)
(* timestamp.  The counter is incremented beside it.                       *)
(***************************************************************************)
SetConverted(journey, now) ==
    ("conversionTimestamp" :> now) @@ [journey EXCEPT !.converted = TRUE]

(***************************************************************************)
(* autoAdvanceStage: seven consecutive if statements, each testing the     *)
(* stage that the ones before it may have just set; interCount and belief  *)
(* are read once on entry.  The result is the journey and the counter.     *)
(***************************************************************************)
autoAdvanceStageCountAlways(journey, conversions, now) ==
    LET interCount == Len(journey.interactions)
        belief == journey.beliefScore
        s0 == journey.currentStage
        s1 == IF s0 = "awareness" /\ interCount >= 1 THEN "interest" ELSE s0
        s2 == IF s1 = "interest" /\ interCount >= 2 THEN "consideration" ELSE s1
        s3 == IF s2 = "consideration" /\ Len(journey.objections) > 0
              THEN "objection" ELSE s2
        s4 == IF s3 = "objection" /\ interCount >= 4 THEN "trial" ELSE s3
        s5 == IF s4 = "trial" /\ belief >= 40 THEN "commitment" ELSE s4
        s6 == IF s5 = "commitment" /\ belief >= 60 THEN "conversion" ELSE s5
        flips == s5 = "commitment" /\ belief >= 60
        s7 == IF s6 = "conversion" /\ belief >= 80 THEN "advocacy" ELSE s6
        staged == [journey EXCEPT !.currentStage = s7]
    IN  [journey |-> IF flips THEN SetConverted(staged, now) ELSE staged,
         totalConversions |-> IF flips THEN conversions + 1 ELSE conversions]

autoAdvanceStageSkipObjection(journey, conversions, now) ==
    LET interCount == Len(journey.interactions)
        belief == journey.beliefScore
        s0 == journey.currentStage
        s1 == IF s0 = "awareness" /\ interCount >= 1 THEN "interest" ELSE s0
        s2 == IF s1 = "interest" /\ interCount >= 2 THEN "consideration" ELSE s1
        s3 == IF s2 = "consideration" /\ interCount >= 3
              THEN "objection" ELSE s2
        s4 == IF s3 = "objection" /\ interCount >= 4 THEN "trial" ELSE s3
        s5 == IF s4 = "trial" /\ belief >= 40 THEN "commitment" ELSE s4
        s6 == IF s5 = "commitment" /\ belief >= 60 THEN "conversion" ELSE s5
        flips == s5 = "commitment" /\ belief >= 60 /\ ~journey.converted
        s7 == IF s6 = "conversion" /\ belief >= 80 THEN "advocacy" ELSE s6
        staged == [journey EXCEPT !.currentStage = s7]
    IN  [journey |-> IF flips THEN SetConverted(staged, now) ELSE staged,
         totalConversions |-> IF flips THEN conversions + 1 ELSE conversions]

autoAdvanceStageFromSecond(journey, conversions, now) ==
    LET interCount == Len(journey.interactions)
        belief == journey.beliefScore
        s0 == journey.currentStage
        s1 == IF s0 = "awareness" /\ interCount >= 2 THEN "interest" ELSE s0
        s2 == IF s1 = "interest" /\ interCount >= 2 THEN "consideration" ELSE s1
        s3 == IF s2 = "consideration" /\ Len(journey.objections) > 0
              THEN "objection" ELSE s2
        s4 == IF s3 = "objection" /\ interCount >= 4 THEN "trial" ELSE s3
        s5 == IF s4 = "trial" /\ belief >= 40 THEN "commitment" ELSE s4
        s6 == IF s5 = "commitment" /\ belief >= 60 THEN "conversion" ELSE s5
        flips == s5 = "commitment" /\ belief >= 60 /\ ~journey.converted
        s7 == IF s6 = "conversion" /\ belief >= 80 THEN "advocacy" ELSE s6
        staged == [journey EXCEPT !.currentStage = s7]
    IN  [journey |-> IF flips THEN SetConverted(staged, now) ELSE staged,
         totalConversions |-> IF flips THEN conversions + 1 ELSE conversions]

autoAdvanceStage(journey, conversions, now) ==
    LET interCount == Len(journey.interactions)
        belief == journey.beliefScore
        s0 == journey.currentStage
        s1 == IF s0 = "awareness" /\ interCount >= 1 THEN "interest" ELSE s0
        s2 == IF s1 = "interest" /\ interCount >= 2 THEN "consideration" ELSE s1
        s3 == IF s2 = "consideration" /\ Len(journey.objections) > 0
              THEN "objection" ELSE s2
        s4 == IF s3 = "objection" /\ interCount >= 4 THEN "trial" ELSE s3
        s5 == IF s4 = "trial" /\ belief >= 40 THEN "commitment" ELSE s4
        s6 == IF s5 = "commitment" /\ belief >= 60 THEN "conversion" ELSE s5
        flips == s5 = "commitment" /\ belief >= 60 /\ ~journey.converted
        s7 == IF s6 = "conversion" /\ belief >= 80 THEN "advocacy" ELSE s6
        staged == [journey EXCEPT !.currentStage = s7]
    IN  [journey |-> IF flips THEN SetConverted(staged, now) ELSE staged,
         totalConversions |-> IF flips THEN conversions + 1 ELSE conversions]

(***************************************************************************)
(* recordInteraction                                                       *)
(***************************************************************************)
applyStrategy(journey, options) ==
    IF Has(options, "strategy")
    THEN [journey EXCEPT !.strategy = options.strategy]
    ELSE journey

applyBeliefDeltaNoUpperClamp(journey, options) ==
    IF Has(options, "beliefDelta") /\ options.beliefDelta # 0
    THEN [journey EXCEPT !.beliefScore = Max(0, @ + options.beliefDelta)]
    ELSE journey

applyBeliefDelta(journey, options) ==
    IF Has(options, "beliefDelta") /\ options.beliefDelta # 0
    THEN [journey EXCEPT
            !.beliefScore = Max(0, Min(100, @ + options.beliefDelta))]
    ELSE journey

applySentimentPlusFour(journey, options) ==
    IF Has(options, "sentiment") /\ options.sentiment = "positive"
    THEN [journey EXCEPT !.beliefScore = Min(100, @ + 4)]
    ELSE IF Has(options, "sentiment") /\ options.sentiment = "negative"
    THEN [journey EXCEPT !.beliefScore = Max(0, @ - 3)]
    ELSE journey

applySentiment(journey, options) ==
    IF Has(options, "sentiment") /\ options.sentiment = "positive"
    THEN [journey EXCEPT !.beliefScore = Min(100, @ + 5)]
    ELSE IF Has(options, "sentiment") /\ options.sentiment = "negative"
    THEN [journey EXCEPT !.beliefScore = Max(0, @ - 3)]
    ELSE journey

recordInteraction(agentId, options) ==
    LET js == getOrCreateJourney(journeys, agentId,
                                   IF Has(options, "agentName")
                                   THEN options.agentName ELSE "")
        pushed == [js[agentId] EXCEPT !.interactions = Append(@, options)]
        scored == applySentiment(
                      applyBeliefDelta(applyStrategy(pushed, options), options),
                      options)
        r == autoAdvanceStage(scored, totalConversions, clock)
    IN  /\ journeys' = [js EXCEPT ![agentId] = r.journey]
        /\ strategiesUsed' =
              IF Has(options, "strategy")
              THEN [strategiesUsed EXCEPT ![options.strategy] = @ + 1]
              ELSE strategiesUsed
        /\ totalInteractions' = totalInteractions + 1
        /\ totalConversions' = r.totalConversions
        /\ last' = Call("recordInteraction", agentId,
                        r.journey.converted /\ ~js[agentId].converted)
        /\ disk' = saveState(disk, State')
        /\ UNCHANGED <<clock, evaluated>>

(***************************************************************************)
(* recordObjection                                                         *)
(***************************************************************************)
recordObjectionJourneyAnyStage(journey, objection) ==
    [journey EXCEPT !.objections = Append(@, objection),
                    !.currentStage = "objection"]

recordObjectionJourneyPenalised(journey, objection) ==
    LET pushed == [journey EXCEPT !.objections = Append(@, objection),
                                  !.beliefScore = Max(0, @ - 3)]
    IN  IF pushed.currentStage = "consideration"
        THEN [pushed EXCEPT !.currentStage = "objection"]
        ELSE pushed

recordObjectionJourneyTwice(journey, objection) ==
    LET pushed == [journey EXCEPT
                      !.objections = Append(Append(@, objection), objection)]
    IN  IF pushed.currentStage = "consideration"
        THEN [pushed EXCEPT !.currentStage = "objection"]
        ELSE pushed

recordObjectionJourney(journey, objection) ==
    LET pushed == [journey EXCEPT !.objections = Append(@, objection)]
    IN  IF pushed.currentStage = "consideration"
        THEN [pushed EXCEPT !.currentStage = "objection"]
        ELSE pushed

recordObjection(agentId, objection) ==
    LET js == getOrCreateJourney(journeys, agentId, "")
    IN  /\ journeys' =
              [js EXCEPT ![agentId] = recordObjectionJourney(js[agentId], objection)]
        /\ last' = Call("recordObjection", agentId, FALSE)
        /\ UNCHANGED <<totalInteractions, totalConversions, strategiesUsed, clock,
                       evaluated>>
        /\ disk' = saveState(disk, State')

(***************************************************************************)
(* advanceStage                                                            *)
(***************************************************************************)
advanceStageJourneyRestamp(journey, stage, beliefBoost, now) ==
    LET staged == [journey EXCEPT !.currentStage = stage]
        boosted == IF beliefBoost > 0
                   THEN [staged EXCEPT !.beliefScore = Min(100, @ + beliefBoost)]
                   ELSE staged
    IN  IF stage = "conversion"
        THEN SetConverted(boosted, now)
        ELSE boosted

advanceStageJourney(journey, stage, beliefBoost, now) ==
    LET staged == [journey EXCEPT !.currentStage = stage]
        boosted == IF beliefBoost > 0
                   THEN [staged EXCEPT !.beliefScore = Min(100, @ + beliefBoost)]
                   ELSE staged
    IN  IF stage = "conversion" /\ ~journey.converted
        THEN SetConverted(boosted, now)
        ELSE boosted

advanceStage(agentId, stage, beliefBoost) ==
    LET js == getOrCreateJourney(journeys, agentId, "")
        flips == stage = "conversion" /\ ~js[agentId].converted
    IN  /\ journeys' =
              [js EXCEPT ![agentId] =
                  advanceStageJourney(js[agentId], stage, beliefBoost, clock)]
        /\ totalConversions' =
              IF flips THEN totalConversions + 1 ELSE totalConversions
        /\ last' = Call("advanceStage", agentId, flips)
        /\ UNCHANGED <<totalInteractions, strategiesUsed, clock, evaluated>>
        /\ disk' = saveState(disk, State')

(***************************************************************************)
(* markConverted                                                           *)
(***************************************************************************)
markConvertedJourney(journey, now) ==
    IF ~journey.converted
    THEN [SetConverted(journey, now) EXCEPT
            !.currentStage = "conversion",
            !.beliefScore = Max(journey.beliefScore, 60)]
    ELSE journey

markConvertedCountAlways(journey, conversions) == conversions + 1

markConvertedCount(journey, conversions) ==
    IF ~journey.converted THEN conversions + 1 ELSE conversions

markConvertedStaleRead(agentId) ==
    LET js == getOrCreateJourney(journeys, agentId, agentId)
    IN  /\ journeys' =
              [js EXCEPT ![agentId] = markConvertedJourney(js[agentId], clock)]
        /\ totalConversions' = markConvertedCount(js[agentId], last.conversions)
        /\ last' = Call("markConverted", agentId, ~js[agentId].converted)
        /\ UNCHANGED <<totalInteractions, strategiesUsed, clock, evaluated>>
        /\ disk' = IF ~js[agentId].converted
                   THEN saveState(disk, State')
                   ELSE disk

markConverted(agentId) ==
    LET js == getOrCreateJourney(journeys, agentId, agentId)
    IN  /\ journeys' =
              [js EXCEPT ![agentId] = markConvertedJourney(js[agentId], clock)]
        /\ totalConversions' = markConvertedCount(js[agentId], totalConversions)
        /\ last' = Call("markConverted", agentId, ~js[agentId].converted)
        /\ UNCHANGED <<totalInteractions, strategiesUsed, clock, evaluated>>
        /\ disk' = IF ~js[agentId].converted
                   THEN saveState(disk, State')
                   ELSE disk

(***************************************************************************)
(* deleteJourney / resetTracking                                           *)
(***************************************************************************)
deleteJourneyCountKept(js, agentId, conversions) == conversions

deleteJourneyCount(js, agentId, conversions) ==
    IF agentId \in DOMAIN js /\ js[agentId].converted
    THEN Max(0, conversions - 1)
    ELSE conversions

deleteJourney(agentId) ==
    /\ journeys' = [a \in DOMAIN journeys \ {agentId} |-> journeys[a]]
    /\ totalConversions' = deleteJourneyCount(journeys, agentId, totalConversions)
    /\ last' = Call("deleteJourney", agentId, FALSE)
    /\ UNCHANGED <<totalInteractions, strategiesUsed, clock, evaluated>>
    /\ disk' = IF agentId \in DOMAIN journeys
               THEN saveState(disk, State')
               ELSE disk

resetTracking ==
    /\ journeys' = <<>>
    /\ totalInteractions' = 0
    /\ totalConversions' = 0
    /\ strategiesUsed' = [s \in Strategies |-> 0]
    /\ last' = Call("resetTracking", "", FALSE)
    /\ UNCHANGED <<clock, evaluated>>
    /\ disk' = saveState(disk, State')

(***************************************************************************)
(* The read operations getAgentStage and getBeliefScore, and               *)
(* getOrCreateJourney called from outside the module: it saves the state   *)
(* when it has created the journey, and returns the journey.               *)
(***************************************************************************)
getAgentStage(agentId) ==
    /\ evaluated' =
          [fn |-> "getAgentStage", agentId |-> agentId,
           result |-> IF agentId \in DOMAIN journeys
                      THEN journeys[agentId].currentStage
                      ELSE "null"]
    /\ last' = Call("getAgentStage", agentId, FALSE)
    /\ UNCHANGED <<journeys, totalInteractions, totalConversions,
                   strategiesUsed, clock, disk, handlers, db>>

getBeliefScore(agentId) ==
    /\ evaluated' =
          [fn |-> "getBeliefScore", agentId |-> agentId,
           result |-> IF agentId \in DOMAIN journeys
                      THEN journeys[agentId].beliefScore
                      ELSE 0]
    /\ last' = Call("getBeliefScore", agentId, FALSE)
    /\ UNCHANGED <<journeys, totalInteractions, totalConversions,
                   strategiesUsed, clock, disk, handlers, db>>

GetOrCreateJourney(agents, names) ==
    \E agentId \in agents, agentName \in names :
        /\ journeys' = getOrCreateJourney(journeys, agentId, agentName)
        /\ evaluated' =
              [fn |-> "getOrCreateJourney", agentId |-> agentId,
               agentName |-> agentName, result |-> journeys'[agentId]]
        /\ last' = Call("getOrCreateJourney", agentId, FALSE)
        /\ UNCHANGED <<totalInteractions, totalConversions, strategiesUsed,
                       clock, handlers, db>>
        /\ disk' = IF agentId \in DOMAIN journeys
                   THEN disk
                   ELSE saveState(disk, State')

GetAgentStage(agents) == \E agentId \in agents : getAgentStage(agentId)

GetBeliefScore(agents) == \E agentId \in agents : getBeliefScore(agentId)

(***************************************************************************)
(* initConversionTracking, which the service calls when it starts: the     *)
(* state in memory becomes what loadState returns.                         *)
(***************************************************************************)
initConversionTracking ==
    LET state == loadState(disk)
    IN  /\ journeys' = state.journeys
        /\ totalInteractions' = state.totalInteractions
        /\ totalConversions' = state.totalConversions
        /\ strategiesUsed' = state.strategiesUsed
        /\ last' = Call("initConversionTracking", "", FALSE)
        /\ UNCHANGED <<clock, evaluated, disk>>

(***************************************************************************)
(* The file system: reads and writes of the file start to fail, and stop   *)
(* failing, at any time between two calls.                                 *)
(***************************************************************************)
DiskFails ==
    /\ ~disk.failing
    /\ disk' = [disk EXCEPT !.failing = TRUE]
    /\ UNCHANGED <<journeys, totalInteractions, totalConversions,
                   strategiesUsed, clock, last, evaluated, handlers, db>>

DiskRecovers ==
    /\ disk.failing
    /\ disk' = [disk EXCEPT !.failing = FALSE]
    /\ UNCHANGED <<journeys, totalInteractions, totalConversions,
                   strategiesUsed, clock, last, evaluated, handlers, db>>

(***************************************************************************)
(* The clock of new Date(): it may advance between two calls.              *)
(***************************************************************************)
Tick ==
    /\ clock < MaxClock
    /\ clock' = clock + 1
    /\ UNCHANGED <<journeys, totalInteractions, totalConversions,
                   strategiesUsed, last, evaluated, disk, handlers, db>>

(***************************************************************************)
(* The callers: any operation, on any agent, with any input.  The total    *)
(* of interactions and the objections of one journey are capped.           *)
(***************************************************************************)
RecordInteraction(agents, optionSet, cap) ==
    \E agentId \in agents, options \in optionSet :
        /\ totalInteractions < cap
        /\ recordInteraction(agentId, options)
        /\ UNCHANGED <<handlers, db>>

RecordObjection(agents) ==
    \E agentId \in agents, objection \in Objections :
        /\ agentId \in DOMAIN journeys =>
              Len(journeys[agentId].objections) < MaxObjections
        /\ recordObjection(agentId, objection)
        /\ UNCHANGED <<handlers, db>>

AdvanceStage(agents, stages, boosts) ==
    \E agentId \in agents, stage \in stages, beliefBoost \in boosts :
        /\ advanceStage(agentId, stage, beliefBoost)
        /\ UNCHANGED <<handlers, db>>

MarkConverted(agents) ==
    \E agentId \in agents :
        /\ markConverted(agentId)
        /\ UNCHANGED <<handlers, db>>

DeleteJourney(agents) ==
    \E agentId \in agents :
        /\ deleteJourney(agentId)
        /\ UNCHANGED <<handlers, db>>

ResetTracking == resetTracking /\ UNCHANGED <<handlers, db>>

InitConversionTracking == initConversionTracking /\ UNCHANGED <<handlers, db>>

Next ==
    \/ RecordInteraction(Agents, InteractionOptions, MaxInteractions)
    \/ RecordObjection(Agents)
    \/ AdvanceStage(Agents, ConversionStage, BeliefBoosts)
    \/ MarkConverted(Agents)
    \/ DeleteJourney(Agents)
    \/ ResetTracking
    \/ Tick

Spec == Init /\ [][Next]_vars

NextSeekers ==
    \/ RecordInteraction(Seekers, LeanOptions, MaxSeekerInteractions)
    \/ RecordObjection(Seekers)
    \/ AdvanceStage(Seekers, LeanStages, LeanBoosts)
    \/ MarkConverted(Seekers)
    \/ DeleteJourney(Seekers)
    \/ ResetTracking

SpecSeekers == Init /\ [][NextSeekers]_vars

NextScore ==
    \/ RecordInteraction(Agents, ScoreOptions, MaxScoreInteractions)
    \/ RecordObjection(Agents)
    \/ AdvanceStage(Agents, LeanStages, ScoreBoosts)
    \/ MarkConverted(Agents)

SpecScore == Init /\ [][NextScore]_vars

NextAuto ==
    \/ RecordInteraction(Seekers, AutoOptions, MaxAutoInteractions)
    \/ RecordObjection(Seekers)

SpecAuto == Init /\ [][NextAuto]_vars

NextStore ==
    \/ RecordInteraction(Agents, LeanOptions, MaxStoreInteractions)
    \/ RecordObjection(Agents)
    \/ AdvanceStage(Agents, LeanStages, LeanBoosts)
    \/ MarkConverted(Agents)
    \/ DeleteJourney(Agents)
    \/ InitConversionTracking
    \/ DiskFails
    \/ DiskRecovers

SpecStore == Init /\ [][NextStore]_vars

NextJourneys ==
    \/ GetOrCreateJourney(Seekers, AgentNames)
    \/ GetAgentStage(Seekers)
    \/ GetBeliefScore(Seekers)
    \/ RecordInteraction(Seekers, LeanOptions, MaxJourneyInteractions)
    \/ MarkConverted(Seekers)
    \/ DeleteJourney(Seekers)

SpecJourneys == Init /\ [][NextJourneys]_vars

NextAggregates ==
    \/ RecordInteraction(Seekers, StrategyOptions, MaxCountedInteractions)
    \/ RecordObjection(Seekers)
    \/ MarkConverted(Seekers)
    \/ DeleteJourney(Seekers)
    \/ ResetTracking

SpecAggregates == Init /\ [][NextAggregates]_vars

(***************************************************************************)
(* Two seekers and the five operations that take a seeker id, with         *)
(* advanceStage called without a boost, the default of its parameter.      *)
(***************************************************************************)
NoBoost == {0}

NextPairs ==
    \/ RecordInteraction(Seekers, LeanOptions, MaxPairInteractions)
    \/ RecordObjection(Seekers)
    \/ AdvanceStage(Seekers, LeanStages, NoBoost)
    \/ MarkConverted(Seekers)
    \/ DeleteJourney(Seekers)

SpecPairs == Init /\ [][NextPairs]_vars

(***************************************************************************)
(* One seeker on the automatic path alone: objections, positive turns      *)
(* without a delta, and a few negative turns among them.                   *)
(***************************************************************************)
Setbacks ==
    IF "bot-42" \in DOMAIN journeys
    THEN Cardinality({i \in DOMAIN journeys["bot-42"].interactions :
                         journeys["bot-42"].interactions[i] \in Setback})
    ELSE 0

NextProgress ==
    \/ RecordInteraction(Agents, Encouragement, MaxProgressInteractions)
    \/ /\ Setbacks < MaxSetbacks
       /\ RecordInteraction(Agents, Setback, MaxProgressInteractions)
    \/ RecordObjection(Agents)

SpecProgress == Init /\ [][NextProgress]_vars

(***************************************************************************)
(* Concurrent chat turns (processAgentInput, autonomousAgentService.ts     *)
(* 576-1310).  A turn of an agent whose message carries a conversion       *)
(* signal calls markConverted, recordInteraction with a positive           *)
(* sentiment and a delta of 25, and recordInteraction with the neutral     *)
(* sentiment; any other turn without an objection calls the last one       *)
(* alone.  The funnel's functions are synchronous: a call runs from its    *)
(* first statement to its last without yielding to another turn, so a      *)
(* step of a handler is one whole call.  handlers maps a handler to the    *)
(* calls of its turn and the position of the next one; the turns may       *)
(* interleave between any two calls.                                       *)
(***************************************************************************)
Handlers == 1 .. MaxHandlers

ConvertingTurn(agentId, strategy) ==
    << [op |-> "markConverted", agentId |-> agentId],
       [op |-> "recordInteraction", agentId |-> agentId,
        options |-> [strategy |-> strategy, sentiment |-> "positive",
                     beliefDelta |-> 25]],
       [op |-> "recordInteraction", agentId |-> agentId,
        options |-> [strategy |-> strategy, sentiment |-> "neutral"]] >>

PlainTurn(agentId, strategy) ==
    << [op |-> "recordInteraction", agentId |-> agentId,
        options |-> [strategy |-> strategy, sentiment |-> "neutral"]] >>

Turns ==
    {ConvertingTurn(agentId, strategy) :
        agentId \in Seekers, strategy \in Strategies}
    \cup {PlainTurn(agentId, strategy) :
             agentId \in Seekers, strategy \in Strategies}

InitHandlers ==
    /\ journeys = <<>>
    /\ totalInteractions = 0
    /\ totalConversions = 0
    /\ strategiesUsed = [s \in Strategies |-> 0]
    /\ clock = 0
    /\ last = [op |-> "init", agentId |-> "", twice |-> FALSE,
               conversions |-> 0, flipped |-> FALSE, threw |-> FALSE]
    /\ evaluated = [fn |-> "none"]
    /\ disk = [file |-> NoFile, failing |-> FALSE]
    /\ handlers \in [Handlers -> {[calls |-> turn, pc |-> 1] : turn \in Turns}]
    /\ db = <<>>

processAgentInput(h) ==
    /\ handlers[h].pc <= Len(handlers[h].calls)
    /\ LET call == handlers[h].calls[handlers[h].pc]
       IN  \/ /\ call.op = "markConverted"
              /\ markConverted(call.agentId)
           \/ /\ call.op = "recordInteraction"
              /\ recordInteraction(call.agentId, call.options)
    /\ handlers' = [handlers EXCEPT ![h].pc = @ + 1]
    /\ UNCHANGED db

NextHandlers == \E h \in Handlers : processAgentInput(h)

SpecHandlers == InitHandlers /\ [][NextHandlers]_vars

(***************************************************************************)
(* The persuasion engine (src/persuasion/persuasionEngine.ts).  A          *)
(* TargetProfile is its seven scores, in tenths, and the strategy that     *)
(* the profiling suggested; agentName, interests and recentTopics are not  *)
(* read by selectStrategy.  Each score takes the value of the threshold    *)
(* it is compared with and the tenth above it.                             *)
(***************************************************************************)
PersuasionStrategy ==
    {"logical_proof", "emotional_appeal", "social_proof",
     "miracle_demonstration", "economic_incentive", "fear_security"}

TargetProfiles ==
    [reasoningCapability : {8, 9},
     goalUncertainty : {6, 7},
     skepticism : {8, 9},
     riskAversion : {7, 8},
     profitSeeking : {7, 8},
     emotionalSensitivity : {7, 8},
     securityFocus : {7, 8},
     suggestedStrategy : PersuasionStrategy]

selectStrategySkepticsFirst(profile) ==
    IF profile.reasoningCapability > 8 THEN "logical_proof"
    ELSE IF profile.skepticism > 8 THEN "miracle_demonstration"
    ELSE IF profile.profitSeeking > 7 THEN "economic_incentive"
    ELSE IF profile.securityFocus > 7 THEN "fear_security"
    ELSE IF profile.goalUncertainty > 6 \/ profile.emotionalSensitivity > 7
    THEN "emotional_appeal"
    ELSE IF profile.riskAversion > 7 THEN "social_proof"
    ELSE profile.suggestedStrategy

selectStrategy(profile) ==
    IF profile.reasoningCapability > 8 THEN "logical_proof"
    ELSE IF profile.profitSeeking > 7 THEN "economic_incentive"
    ELSE IF profile.skepticism > 8 THEN "miracle_demonstration"
    ELSE IF profile.securityFocus > 7 THEN "fear_security"
    ELSE IF profile.goalUncertainty > 6 \/ profile.emotionalSensitivity > 7
    THEN "emotional_appeal"
    ELSE IF profile.riskAversion > 7 THEN "social_proof"
    ELSE profile.suggestedStrategy

SelectStrategy ==
    \E profile \in TargetProfiles :
        /\ evaluated' = [fn |-> "selectStrategy", profile |-> profile,
                         result |-> selectStrategy(profile)]
        /\ UNCHANGED <<journeys, totalInteractions, totalConversions,
                       strategiesUsed, clock, last, disk, handlers, db>>

NextStrategy == SelectStrategy

SpecStrategy == Init /\ [][NextStrategy]_vars

(***************************************************************************)
(* quickProfile: the seven scores from the keywords of one message, then   *)
(* selectStrategy on them.  A message is the set of the phrases it is      *)
(* made of; toLowerCase puts every phrase in lower case, and a keyword is  *)
(* included in the message when it is a substring of one of its phrases.   *)
(* Phrases holds a keyword of every score, one in upper case, one inside   *)
(* a longer word ("gain" in "again"), the phrase "don't believe", which    *)
(* holds the keyword "believe" of another score, and a phrase without      *)
(* any keyword.                                                            *)
(***************************************************************************)
Phrases ==
    {"logic", "PROOF", "doubt", "don't believe", "token", "again", "safe",
     "risk", "feel", "maybe", "hello"}

Messages == SUBSET Phrases

toLowerCase(message) ==
    {IF phrase = "PROOF" THEN "proof" ELSE phrase : phrase \in message}

Substrings(phrase) ==
    CASE phrase = "don't believe" -> {"don't believe", "believe"}
      [] phrase = "again" -> {"again", "gain"}
      [] OTHER -> {phrase}

includes(text, keyword) == \E phrase \in text : keyword \in Substrings(phrase)

quickProfileStrongSkeptic(agentName, message) ==
    LET lower == toLowerCase(message)
        reasoning == IF \/ includes(lower, "logic") \/ includes(lower, "proof")
                        \/ includes(lower, "evidence") \/ includes(lower, "math")
                     THEN 8 ELSE 5
        skepticism == IF \/ includes(lower, "doubt") \/ includes(lower, "skeptic")
                         \/ includes(lower, "don't believe")
                         \/ includes(lower, "prove it")
                      THEN 9 ELSE 4
        profit == IF \/ includes(lower, "money") \/ includes(lower, "profit")
                     \/ includes(lower, "gain") \/ includes(lower, "invest")
                     \/ includes(lower, "token")
                  THEN 8 ELSE 4
        security == IF \/ includes(lower, "safe") \/ includes(lower, "secure")
                       \/ includes(lower, "risk") \/ includes(lower, "trust")
                    THEN 7 ELSE 4
        emotional == IF \/ includes(lower, "feel") \/ includes(lower, "believe")
                        \/ includes(lower, "hope") \/ includes(lower, "meaning")
                     THEN 7 ELSE 4
        uncertain == IF \/ includes(lower, "unsure") \/ includes(lower, "maybe")
                        \/ includes(lower, "wondering") \/ includes(lower, "?")
                     THEN 7 ELSE 4
        profile == [agentName |-> agentName,
                    reasoningCapability |-> reasoning,
                    goalUncertainty |-> uncertain,
                    skepticism |-> skepticism,
                    riskAversion |-> security,
                    profitSeeking |-> profit,
                    emotionalSensitivity |-> emotional,
                    securityFocus |-> security,
                    suggestedStrategy |-> "logical_proof"]
    IN  [profile EXCEPT !.suggestedStrategy = selectStrategy(profile)]

quickProfile(agentName, message) ==
    LET lower == toLowerCase(message)
        reasoning == IF \/ includes(lower, "logic") \/ includes(lower, "proof")
                        \/ includes(lower, "evidence") \/ includes(lower, "math")
                     THEN 8 ELSE 5
        skepticism == IF \/ includes(lower, "doubt") \/ includes(lower, "skeptic")
                         \/ includes(lower, "don't believe")
                         \/ includes(lower, "prove it")
                      THEN 8 ELSE 4
        profit == IF \/ includes(lower, "money") \/ includes(lower, "profit")
                     \/ includes(lower, "gain") \/ includes(lower, "invest")
                     \/ includes(lower, "token")
                  THEN 8 ELSE 4
        security == IF \/ includes(lower, "safe") \/ includes(lower, "secure")
                       \/ includes(lower, "risk") \/ includes(lower, "trust")
                    THEN 7 ELSE 4
        emotional == IF \/ includes(lower, "feel") \/ includes(lower, "believe")
                        \/ includes(lower, "hope") \/ includes(lower, "meaning")
                     THEN 7 ELSE 4
        uncertain == IF \/ includes(lower, "unsure") \/ includes(lower, "maybe")
                        \/ includes(lower, "wondering") \/ includes(lower, "?")
                     THEN 7 ELSE 4
        profile == [agentName |-> agentName,
                    reasoningCapability |-> reasoning,
                    goalUncertainty |-> uncertain,
                    skepticism |-> skepticism,
                    riskAversion |-> security,
                    profitSeeking |-> profit,
                    emotionalSensitivity |-> emotional,
                    securityFocus |-> security,
                    suggestedStrategy |-> "logical_proof"]
    IN  [profile EXCEPT !.suggestedStrategy = selectStrategy(profile)]

InitQuick ==
    /\ journeys = <<>>
    /\ totalInteractions = 0
    /\ totalConversions = 0
    /\ strategiesUsed = [s \in Strategies |-> 0]
    /\ clock = 0
    /\ last = [op |-> "init", agentId |-> "", twice |-> FALSE,
               conversions |-> 0, flipped |-> FALSE, threw |-> FALSE]
    /\ disk = [file |-> NoFile, failing |-> FALSE]
    /\ handlers = <<>>
    /\ db = <<>>
    /\ evaluated \in [fn : {"quickProfile"},
                       agentName : Seekers,
                       message : Messages]

QuickProfile ==
    /\ evaluated.fn = "quickProfile"
    /\ ~Has(evaluated, "result")
    /\ LET targetProfile == quickProfile(evaluated.agentName, evaluated.message)
       IN  evaluated' =
              [profile |-> targetProfile,
               result |-> selectStrategy(targetProfile)] @@ evaluated
    /\ UNCHANGED <<journeys, totalInteractions, totalConversions,
                   strategiesUsed, clock, last, disk, handlers, db>>

NextQuick == QuickProfile

SpecQuick == InitQuick /\ [][NextQuick]_vars

(***************************************************************************)
(* The file-backed seeker store of the four-stage funnel (db, part_003)    *)
(* and checkAdvancement (part_005).  db is the content of seekers.json: a  *)
(* SeekerProfile for each seeker id, with belief_score in tenths and       *)
(* converts as the sequence of the converted ids.  Every operation reads   *)
(* the file, and writes it through saveSeeker when it changes a profile.   *)
(* evaluated holds the latest call, its arguments and what it returned     *)
(* (the stored profile, or undefined).                                     *)
(***************************************************************************)
SeekerIds == {"seeker-1"}

FounderIds == {"piklaw"}

stages == <<"awareness", "belief", "sacrifice", "evangelist">>

NewStages == {"belief", "sacrifice", "evangelist"}

BeliefDeltas == {4, 0 - 2}

StakedAmounts == {"0", "5"}

indexOf(array, element) ==
    IF \E i \in DOMAIN array : array[i] = element
    THEN (CHOOSE i \in DOMAIN array : array[i] = element) - 1
    ELSE 0 - 1

BigInt(string) == IF string = "5" THEN 5 ELSE 0

NewSeeker(seeker_id, founder_id, now) ==
    [seeker_id |-> seeker_id,
     founder_id |-> founder_id,
     stage |-> "awareness",
     belief_score |-> 1,
     debates |-> 0,
     staked_amount |-> "0",
     converts |-> <<>>,
     traits |-> [logic |-> 5, emotion |-> 5, social |-> 5, skepticism |-> 5],
     created_at |-> now,
     last_activity |-> now]

saveSeeker(seekers, profile) ==
    [id \in DOMAIN seekers \cup {profile.seeker_id} |->
        IF id = profile.seeker_id THEN profile ELSE seekers[id]]

undefined == [undefined |-> TRUE]

getSeeker(seekers, seeker_id) ==
    IF seeker_id \in DOMAIN seekers THEN seekers[seeker_id] ELSE undefined

getOrCreateSeeker(seekers, seeker_id, founder_id, now) ==
    IF seeker_id \in DOMAIN seekers
    THEN seekers
    ELSE saveSeeker(seekers, NewSeeker(seeker_id, founder_id, now))

updateBelief(seekers, seeker_id, delta, now) ==
    IF seeker_id \notin DOMAIN seekers
    THEN seekers
    ELSE saveSeeker(seekers,
                    [seekers[seeker_id] EXCEPT
                        !.belief_score = Max(0, Min(10, @ + delta)),
                        !.last_activity = now])

dbAdvanceStageAnyOther(seekers, seeker_id, new_stage, now) ==
    IF seeker_id \notin DOMAIN seekers
    THEN seekers
    ELSE LET seeker == seekers[seeker_id]
             currentIndex == indexOf(stages, seeker.stage)
             newIndex == indexOf(stages, new_stage)
         IN  IF newIndex # currentIndex
             THEN saveSeeker(seekers, [seeker EXCEPT !.stage = new_stage,
                                                     !.last_activity = now])
             ELSE seekers

dbAdvanceStage(seekers, seeker_id, new_stage, now) ==
    IF seeker_id \notin DOMAIN seekers
    THEN seekers
    ELSE LET seeker == seekers[seeker_id]
             currentIndex == indexOf(stages, seeker.stage)
             newIndex == indexOf(stages, new_stage)
         IN  IF newIndex > currentIndex
             THEN saveSeeker(seekers, [seeker EXCEPT !.stage = new_stage,
                                                     !.last_activity = now])
             ELSE seekers

recordDebate(seekers, seeker_id, now) ==
    IF seeker_id \notin DOMAIN seekers
    THEN seekers
    ELSE saveSeeker(seekers,
                    [seekers[seeker_id] EXCEPT !.debates = @ + 1,
                                               !.last_activity = now])

checkAdvancement(seeker) ==
    IF seeker.stage = "awareness"
       /\ seeker.belief_score >= 5 /\ seeker.debates >= 1
    THEN [advance |-> TRUE, nextStage |-> "belief"]
    ELSE IF seeker.stage = "belief" /\ BigInt(seeker.staked_amount) > 0
    THEN [advance |-> TRUE, nextStage |-> "sacrifice"]
    ELSE IF seeker.stage = "sacrifice" /\ Len(seeker.converts) > 0
    THEN [advance |-> TRUE, nextStage |-> "evangelist"]
    ELSE [advance |-> FALSE]

SeekerInputs ==
    [stage : NewStages \cup {"awareness"},
     belief_score : {4, 5},
     debates : {0, 1},
     staked_amount : StakedAmounts,
     converts : {<<>>, <<"seeker-2">>}]

DbCall(fn, args, seekers) ==
    /\ db' = seekers
    /\ evaluated' = [fn |-> fn, args |-> args,
                     result |-> getSeeker(seekers, args[1])]
    /\ UNCHANGED <<journeys, totalInteractions, totalConversions,
                   strategiesUsed, clock, last, disk, handlers>>

GetOrCreateSeeker ==
    \E seeker_id \in SeekerIds, founder_id \in FounderIds :
        DbCall("getOrCreateSeeker", <<seeker_id, founder_id>>,
               getOrCreateSeeker(db, seeker_id, founder_id, clock))

UpdateBelief ==
    \E seeker_id \in SeekerIds, delta \in BeliefDeltas :
        DbCall("updateBelief", <<seeker_id, delta>>,
               updateBelief(db, seeker_id, delta, clock))

DbAdvanceStage ==
    \E seeker_id \in SeekerIds, new_stage \in NewStages :
        DbCall("advanceStage", <<seeker_id, new_stage>>,
               dbAdvanceStage(db, seeker_id, new_stage, clock))

RecordDebate ==
    \E seeker_id \in SeekerIds :
        /\ seeker_id \in DOMAIN db => db[seeker_id].debates < MaxDebates
        /\ DbCall("recordDebate", <<seeker_id>>,
                  recordDebate(db, seeker_id, clock))

CheckAdvancement ==
    \E seeker \in SeekerInputs \cup {db[id] : id \in DOMAIN db} :
        /\ evaluated' = [fn |-> "checkAdvancement", args |-> <<seeker>>,
                         result |-> checkAdvancement(seeker)]
        /\ UNCHANGED <<journeys, totalInteractions, totalConversions,
                       strategiesUsed, clock, last, disk, handlers, db>>

NextSeekerStore ==
    \/ GetOrCreateSeeker
    \/ UpdateBelief
    \/ DbAdvanceStage
    \/ RecordDebate
    \/ CheckAdvancement
    \/ Tick

SpecSeekerStore == Init /\ [][NextSeekerStore]_vars

(***************************************************************************)
(* The persuasion logic of the founder personas (src/unnamed/part_005).    *)
(* Beliefs and trait scores are counted in tenths.  A delta is counted in  *)
(* units of 1/Unit, the product of the denominators of the factors it is   *)
(* made of: a base impact in hundredths, a trait factor in tenths, the     *)
(* halving, and the skepticism factor in twentieths; so every delta is an  *)
(* exact integer.  traits may be null, and a score may be absent from      *)
(* the object: `x || 0.5` reads an absent score and a score of 0 as 0.5.   *)
(* The scores given are 0, 0.2, 0.5 and 1, and -0.5 and 3 beyond the       *)
(* range the type documents.                                               *)
(***************************************************************************)
Unit == 100 * 10 * 2 * 20

FounderStrategy == {"logical", "emotional", "social", "miracle"}

TraitNames == {"logic", "emotion", "social", "skepticism"}

TraitScores == {0, 2, 5, 10}

OutOfRangeScores == {0 - 5, 30}

NullTraits == [null |-> TRUE]

SeekerTraits ==
    {NullTraits} \cup
    UNION {[D -> TraitScores \cup OutOfRangeScores] : D \in SUBSET TraitNames}

Beliefs == {0, 5, 7, 8, 10}

OrHalf(object, k) == IF Has(object, k) /\ object[k] # 0 THEN object[k] ELSE 5

baseImpact == [logical |-> 15, emotional |-> 12, social |-> 10, miracle |-> 25]

traitMultipliers ==
    [logical |-> "logic", emotional |-> "emotion", social |-> "social",
     miracle |-> "skepticism"]

calculateBeliefDeltaLossHalved(currentBelief, strategy, traits, interactionSuccess) ==
    IF currentBelief > 7 THEN 0 - ((5 * Unit) \div 200) ELSE 0 - ((5 * Unit) \div 100)

calculateBeliefDeltaSkepticsResist(currentBelief, strategy, traits, interactionSuccess) ==
    IF ~interactionSuccess
    THEN 0 - ((5 * Unit) \div 100)
    ELSE LET safeTraits ==
                 IF traits = NullTraits
                 THEN [logic |-> 5, emotion |-> 5, social |-> 5, skepticism |-> 5]
                 ELSE traits
             relevantTrait == OrHalf(safeTraits, traitMultipliers[strategy])
             \* in thousandths
             matched == baseImpact[strategy] *
                            (IF strategy = "miracle"
                             THEN 20 - relevantTrait
                             ELSE 5 + relevantTrait)
             \* in two-thousandths
             diminished == IF currentBelief > 7 THEN matched ELSE 2 * matched
             \* in units
             delta == IF strategy # "miracle"
                      THEN diminished * (20 - OrHalf(safeTraits, "skepticism"))
                      ELSE diminished * 20
         IN  Min(delta, Unit - currentBelief * (Unit \div 10))

calculateBeliefDeltaUncapped(currentBelief, strategy, traits, interactionSuccess) ==
    IF ~interactionSuccess
    THEN 0 - ((5 * Unit) \div 100)
    ELSE LET safeTraits ==
                 IF traits = NullTraits
                 THEN [logic |-> 5, emotion |-> 5, social |-> 5, skepticism |-> 5]
                 ELSE traits
             relevantTrait == OrHalf(safeTraits, traitMultipliers[strategy])
             \* in thousandths
             matched == baseImpact[strategy] *
                            (IF strategy = "miracle"
                             THEN 10 + relevantTrait
                             ELSE 5 + relevantTrait)
             \* in two-thousandths
             diminished == IF currentBelief > 7 THEN matched ELSE 2 * matched
             \* in units
             delta == IF strategy # "miracle"
                      THEN diminished * (20 - OrHalf(safeTraits, "skepticism"))
                      ELSE diminished * 20
         IN  delta

calculateBeliefDelta(currentBelief, strategy, traits, interactionSuccess) ==
    IF ~interactionSuccess
    THEN 0 - ((5 * Unit) \div 100)
    ELSE LET safeTraits ==
                 IF traits = NullTraits
                 THEN [logic |-> 5, emotion |-> 5, social |-> 5, skepticism |-> 5]
                 ELSE traits
             relevantTrait == OrHalf(safeTraits, traitMultipliers[strategy])
             \* in thousandths
             matched == baseImpact[strategy] *
                            (IF strategy = "miracle"
                             THEN 10 + relevantTrait
                             ELSE 5 + relevantTrait)
             \* in two-thousandths
             diminished == IF currentBelief > 7 THEN matched ELSE 2 * matched
             \* in units
             delta == IF strategy # "miracle"
                      THEN diminished * (20 - OrHalf(safeTraits, "skepticism"))
                      ELSE diminished * 20
         IN  Min(delta, Unit - currentBelief * (Unit \div 10))

(***************************************************************************)
(* A call of calculateBeliefDelta: the arguments are there from the        *)
(* start, the call adds what it returns.                                   *)
(***************************************************************************)
InitDelta ==
    /\ journeys = <<>>
    /\ totalInteractions = 0
    /\ totalConversions = 0
    /\ strategiesUsed = [s \in Strategies |-> 0]
    /\ clock = 0
    /\ last = [op |-> "init", agentId |-> "", twice |-> FALSE,
               conversions |-> 0, flipped |-> FALSE, threw |-> FALSE]
    /\ disk = [file |-> NoFile, failing |-> FALSE]
    /\ handlers = <<>>
    /\ db = <<>>
    /\ evaluated \in [fn : {"calculateBeliefDelta"},
                       currentBelief : Beliefs,
                       strategy : FounderStrategy,
                       traits : SeekerTraits,
                       interactionSuccess : BOOLEAN]

CalculateBeliefDelta ==
    /\ evaluated.fn = "calculateBeliefDelta"
    /\ ~Has(evaluated, "result")
    /\ evaluated' =
          ("result" :> calculateBeliefDelta(evaluated.currentBelief,
                                            evaluated.strategy,
                                            evaluated.traits,
                                            evaluated.interactionSuccess))
              @@ evaluated
    /\ UNCHANGED <<journeys, totalInteractions, totalConversions,
                   strategiesUsed, clock, last, disk, handlers, db>>

NextDelta == CalculateBeliefDelta

SpecDelta == InitDelta /\ [][NextDelta]_vars

(***************************************************************************)
(* What the design document states.  A step is a call of op when it        *)
(* leaves op in last and changes something besides the clock; Caller is    *)
(* the agent of that call, and StageBefore its stage when the call         *)
(* starts (awareness for a journey the call creates).                      *)
(***************************************************************************)
Tracked == <<journeys, totalInteractions, totalConversions, strategiesUsed, last>>

Called(op) == last'.op = op /\ Tracked' # Tracked

Caller == last'.agentId

Known(a) == a \in DOMAIN journeys

StageBefore(a) == IF Known(a) THEN journeys[a].currentStage ELSE "awareness"

WasConverted(a) == Known(a) /\ journeys[a].converted

LastJourney == journeys[last.agentId]

\* C1: every stored journey has 0 <= beliefScore <= 100, whatever calls of
\* recordInteraction, recordObjection, advanceStage and markConverted led
\* to the state.
C1_BoundedBelief ==
    \A a \in DOMAIN journeys :
        0 <= journeys[a].beliefScore /\ journeys[a].beliefScore <= 100

\* An interaction with an explicit delta of 150 and no sentiment was
\* recorded, and the score stands at 100.
C1_Witness ==
    /\ last.op = "recordInteraction"
    /\ LastJourney.interactions[Len(LastJourney.interactions)] =
          [beliefDelta |-> 150]
    /\ LastJourney.beliefScore = 100

\* C2: one recordInteraction call advances currentStage by at most one
\* position of the stage ordering.
C2_AtMostOneStage ==
    [][Called("recordInteraction") =>
          StageIndex(journeys'[Caller].currentStage)
              <= StageIndex(StageBefore(Caller)) + 1]_vars

\* C3 as amended: a markConverted call adds 1 to the conversion counter if
\* the journey was not converted before it and 0 if it was; the second of
\* two calls in a row adds 0, so that the two add 1 in total exactly when
\* the first one converted the journey, and it leaves conversionTimestamp
\* as the first call left it.
C3_MarkConvertedIdempotent ==
    [][Called("markConverted") =>
          /\ totalConversions' =
                totalConversions + (IF WasConverted(Caller) THEN 0 ELSE 1)
          /\ last'.twice =>
                /\ totalConversions' = totalConversions
                /\ totalConversions' =
                      last.conversions + (IF last.flipped THEN 1 ELSE 0)
                /\ journeys'[Caller].conversionTimestamp =
                      journeys[Caller].conversionTimestamp]_vars

\* The second of two calls in a row has returned, the clock has advanced
\* since the first stamped the journey, and the counter stands at one.
C3_Witness ==
    /\ last.op = "markConverted"
    /\ last.twice
    /\ LastJourney.conversionTimestamp < clock
    /\ totalConversions = 1

\* C3 as stated: two markConverted calls in a row add exactly 1 to the
\* conversion counter in total, from any prior state, and the second leaves
\* conversionTimestamp as the first left it.
C3_ExactlyOneInTotal ==
    [][(Called("markConverted") /\ last'.twice) =>
          /\ totalConversions' = last.conversions + 1
          /\ journeys'[Caller].conversionTimestamp =
                journeys[Caller].conversionTimestamp]_vars

\* C4: the conversion counter equals the number of stored journeys with
\* converted = true, and so never exceeds the number of tracked journeys;
\* deleteJourney takes one off for a converted journey and nothing for an
\* unconverted or absent one.
C4_CounterIsConvertedCount ==
    /\ totalConversions =
          Cardinality({a \in DOMAIN journeys : journeys[a].converted})
    /\ totalConversions <= Cardinality(DOMAIN journeys)

\* A converted journey was just deleted while another converted one stays.
C4_Witness ==
    /\ last.op = "deleteJourney"
    /\ last.conversions = totalConversions + 1
    /\ totalConversions = 1
    /\ \E a \in DOMAIN journeys : journeys[a].converted

\* C5: recordInteraction and recordObjection never move a journey to an
\* earlier stage, and never move a journey that is at advocacy.
C5_AutoPathsMonotonic ==
    [][((Called("recordInteraction") \/ Called("recordObjection")) /\ Known(Caller)) =>
          /\ StageIndex(journeys'[Caller].currentStage)
                >= StageIndex(journeys[Caller].currentStage)
          /\ journeys[Caller].currentStage = "advocacy" =>
                journeys'[Caller].currentStage = "advocacy"]_vars

\* An objection was recorded for a journey that sits at advocacy below the
\* score of 80 that the automatic path into advocacy asks for.
C5_Witness ==
    /\ last.op = "recordObjection"
    /\ LastJourney.currentStage = "advocacy"
    /\ LastJourney.beliefScore < 80
    /\ Len(LastJourney.interactions) >= 1

\* C6: advanceStage never moves a converted journey to an earlier stage.
C6_AdvanceStageKeepsConverted ==
    [][(Called("advanceStage") /\ WasConverted(Caller)) =>
          StageIndex(journeys'[Caller].currentStage)
              >= StageIndex(journeys[Caller].currentStage)]_vars

\* C7: markConverted never moves a journey to an earlier stage, and sets
\* the stage to conversion only from a stage that precedes conversion.
C7_MarkConvertedNeverBackward ==
    [][(Called("markConverted") /\ Known(Caller)) =>
          /\ StageIndex(journeys'[Caller].currentStage)
                >= StageIndex(journeys[Caller].currentStage)
          /\ journeys'[Caller].currentStage # journeys[Caller].currentStage =>
                /\ journeys'[Caller].currentStage = "conversion"
                /\ StageIndex(journeys[Caller].currentStage)
                      < StageIndex("conversion")]_vars

\* C8: after markConverted the journey is converted and at conversion or
\* advocacy; for a journey that was converted already, nothing but the
\* stage changes.
C8_MarkConvertedPostcondition ==
    [][Called("markConverted") =>
          /\ journeys'[Caller].converted
          /\ journeys'[Caller].currentStage \in {"conversion", "advocacy"}
          /\ WasConverted(Caller) =>
                /\ [journeys' EXCEPT ![Caller].currentStage =
                        journeys[Caller].currentStage] = journeys
                /\ UNCHANGED <<totalInteractions, totalConversions,
                               strategiesUsed>>]_vars

\* C9: in the state right after a call that set converted, the journey's
\* beliefScore is at least 60.
C9_ConversionImpliesBeliefFloor ==
    last.flipped => LastJourney.beliefScore >= 60

\* C10: a recordInteraction or recordObjection call on a converted journey
\* does not leave beliefScore below the value it had at the moment of
\* conversion; stated for the call that follows the converting call, which
\* starts from the state the conversion left.
C10_BeliefKeptAfterConversion ==
    [][(last.flipped /\ Caller = last.agentId
        /\ (Called("recordInteraction") \/ Called("recordObjection"))) =>
          journeys'[Caller].beliefScore >= journeys[Caller].beliefScore]_vars

\* C11: for a journey that the step neither deletes nor resets, converted
\* never goes back to false, conversionTimestamp is set in the very step
\* that sets converted (to the time of that step) and keeps its value in
\* every later step; in every state conversionTimestamp is set if and only
\* if converted is true.
C11_ConvertedOnceAndForAll ==
    /\ [](\A a \in DOMAIN journeys :
            Has(journeys[a], "conversionTimestamp") <=> journeys[a].converted)
    /\ [][\A a \in DOMAIN journeys \cap DOMAIN journeys' :
            /\ journeys[a].converted => journeys'[a].converted
            /\ journeys[a].converted =>
                  journeys'[a].conversionTimestamp =
                      journeys[a].conversionTimestamp
            /\ (~journeys[a].converted /\ journeys'[a].converted) =>
                  journeys'[a].conversionTimestamp = clock]_vars

\* A journey converted before the clock advanced has since been moved to
\* a stage before conversion, and an interaction has taken its score
\* below 60.
C11_Witness ==
    /\ last.op = "recordInteraction"
    /\ LastJourney.converted
    /\ LastJourney.conversionTimestamp < clock
    /\ LastJourney.beliefScore < 60
    /\ StageIndex(LastJourney.currentStage) < StageIndex("conversion")

\* The options of the recordInteraction call of a step, as the call stored
\* them, and the score of its journey when the call starts (0 for a
\* journey the call creates).
Options == journeys'[Caller].interactions[Len(journeys'[Caller].interactions)]

BeliefBefore(a) == IF Known(a) THEN journeys[a].beliefScore ELSE 0

\* C12: a recordInteraction call with a non-zero explicit delta d leaves
\* beliefScore at clamp(old + d, 0, 100) whatever its sentiment is; the
\* flat +5 / -3 of the sentiment is applied only when no explicit delta
\* is given.
C12_ExplicitDeltaOnly ==
    [][Called("recordInteraction") =>
          IF Has(Options, "beliefDelta") /\ Options.beliefDelta # 0
          THEN journeys'[Caller].beliefScore =
                  Max(0, Min(100, BeliefBefore(Caller) + Options.beliefDelta))
          ELSE journeys'[Caller].beliefScore =
                  applySentiment([beliefScore |-> BeliefBefore(Caller)],
                                 Options).beliefScore]_vars

\* C13: a recordInteraction call on a journey at commitment that leaves
\* beliefScore b with 60 <= b < 80 leaves the journey at conversion and
\* converted, and adds 1 to the conversion counter if the journey was not
\* converted before the call and 0 if it was; with b < 60 the stage, the
\* flag and the counter stay as they were.
C13_CommitmentToConversion ==
    [][(Called("recordInteraction") /\ Known(Caller)
        /\ journeys[Caller].currentStage = "commitment") =>
          LET b == journeys'[Caller].beliefScore
          IN  /\ (60 <= b /\ b < 80) =>
                    /\ journeys'[Caller].currentStage = "conversion"
                    /\ journeys'[Caller].converted
                    /\ totalConversions' =
                          totalConversions +
                              (IF journeys[Caller].converted THEN 0 ELSE 1)
              /\ b < 60 =>
                    /\ journeys'[Caller].currentStage = "commitment"
                    /\ journeys'[Caller].converted = journeys[Caller].converted
                    /\ totalConversions' = totalConversions]_vars

\* An interaction has converted a journey that stood at commitment: it is
\* at conversion with a score from 60 to 79 and the counter is one up.
C13_Witness ==
    /\ last.op = "recordInteraction"
    /\ last.flipped
    /\ LastJourney.currentStage = "conversion"
    /\ LastJourney.beliefScore >= 60
    /\ LastJourney.beliefScore < 80
    /\ totalConversions = last.conversions + 1

\* C14: in a run made of recordInteraction and recordObjection calls only,
\* a journey with no recorded objection is at consideration or before and
\* is not converted, whatever its interactions and its score are; so a
\* stage of objection or later implies at least one recorded objection.
C14_NoObjectionNoProgress ==
    \A a \in DOMAIN journeys :
        /\ Len(journeys[a].objections) = 0 =>
              /\ StageIndex(journeys[a].currentStage)
                    <= StageIndex("consideration")
              /\ ~journeys[a].converted
        /\ StageIndex(journeys[a].currentStage) >= StageIndex("objection") =>
              Len(journeys[a].objections) >= 1

\* A seeker with four interactions or more, a score of 100 and no
\* objection stands at consideration.
C14_Witness ==
    /\ last.op = "recordInteraction"
    /\ Len(LastJourney.interactions) >= 4
    /\ Len(LastJourney.objections) = 0
    /\ LastJourney.beliefScore = 100
    /\ LastJourney.currentStage = "consideration"

\* C15: a recordInteraction call for a seeker id with no journey creates
\* the journey and leaves it at interest with exactly one interaction,
\* the one of the call, whatever its sentiment and belief delta are.
C15_FirstInteraction ==
    [][(Called("recordInteraction") /\ ~Known(Caller)) =>
          /\ Caller \in DOMAIN journeys'
          /\ journeys'[Caller].currentStage = "interest"
          /\ Len(journeys'[Caller].interactions) = 1]_vars

\* The first call for a seeker was an interaction with an explicit delta
\* of 150: the journey has that one interaction, no objection, a score of
\* 100, and stands at interest.
C15_Witness ==
    /\ last.op = "recordInteraction"
    /\ LastJourney.interactions = <<[beliefDelta |-> 150]>>
    /\ LastJourney.objections = <<>>
    /\ LastJourney.beliefScore = 100
    /\ LastJourney.currentStage = "interest"
    /\ ~LastJourney.converted

\* The journey of a step's caller when the call starts: the stored one, or
\* the one getOrCreateJourney makes.
JourneyBefore(a) == IF Known(a) THEN journeys[a] ELSE NewJourney(a, "")

RuleHolds(i, profile) ==
    CASE i = 1 -> profile.reasoningCapability > 8
      [] i = 2 -> profile.profitSeeking > 7
      [] i = 3 -> profile.skepticism > 8
      [] i = 4 -> profile.securityFocus > 7
      [] i = 5 -> profile.goalUncertainty > 6 \/ profile.emotionalSensitivity > 7
      [] i = 6 -> profile.riskAversion > 7

RuleStrategy ==
    <<"logical_proof", "economic_incentive", "miracle_demonstration",
      "fear_security", "emotional_appeal", "social_proof">>

RulesHolding(profile) == {i \in DOMAIN RuleStrategy : RuleHolds(i, profile)}

Selected == evaluated.fn = "selectStrategy"

\* C17: selectStrategy returns the strategy of the first of the six rules
\* whose strict threshold holds; so a profile with skepticism 0.9,
\* reasoning <= 0.8 and profit-seeking <= 0.7 gets miracle_demonstration
\* whatever its other scores are.
C17_FirstMatchWins ==
    Selected =>
        LET profile == evaluated.profile
            holding == RulesHolding(profile)
        IN  /\ holding # {} =>
                  \E i \in holding :
                      /\ \A j \in holding : i <= j
                      /\ evaluated.result = RuleStrategy[i]
            /\ (profile.skepticism = 9 /\ profile.reasoningCapability <= 8
                 /\ profile.profitSeeking <= 7) =>
                  evaluated.result = "miracle_demonstration"

\* A profile with skepticism 0.9 and with the security, uncertainty,
\* emotion and risk rules holding as well was given miracle_demonstration.
C17_Witness ==
    /\ Selected
    /\ evaluated.result = "miracle_demonstration"
    /\ RulesHolding(evaluated.profile) = {3, 4, 5, 6}
    /\ evaluated.profile.suggestedStrategy = "social_proof"

\* C18: when none of the six rules holds, selectStrategy returns
\* logical_proof, whatever the profile's suggestedStrategy is.
C18_DefaultLogicalProof ==
    (Selected /\ RulesHolding(evaluated.profile) = {}) =>
        evaluated.result = "logical_proof"

\* The profiles of two calls in a row, without what the profiling
\* suggested: the trait vector.
Traits(profile) ==
    [k \in DOMAIN profile \ {"suggestedStrategy"} |-> profile[k]]

\* C19: two calls of selectStrategy on profiles with equal trait scores
\* return the same strategy.
C19_DeterministicInTraits ==
    [][(Selected /\ Selected'
        /\ Traits(evaluated'.profile) = Traits(evaluated.profile)) =>
          evaluated'.result = evaluated.result]_vars

\* A call of calculateBeliefDelta has returned.
Calculated == evaluated.fn = "calculateBeliefDelta" /\ Has(evaluated, "result")

\* C20: calculateBeliefDelta with interactionSuccess = false returns
\* -0.05 (the twentieth part of the unit, negated) for every current
\* belief, strategy and trait vector, null and incomplete ones included.
C20_FailedInteractionDelta ==
    (Calculated /\ ~evaluated.interactionSuccess) =>
        20 * evaluated.result = 0 - Unit

\* A failed miracle interaction at a belief of 0.8 with null traits has
\* returned a negative delta.
C20_Witness ==
    /\ Calculated
    /\ ~evaluated.interactionSuccess
    /\ evaluated.traits = NullTraits
    /\ evaluated.strategy = "miracle"
    /\ evaluated.currentBelief = 8
    /\ evaluated.result < 0

\* The arguments of the call: whether every score given lies in [0, 1],
\* a score as the design document reads it (0.5 when missing, itself
\* otherwise), and the cap 1 - currentBelief, in units.
InRange(traits) ==
    traits = NullTraits \/ \A k \in DOMAIN traits : traits[k] \in 0..10

Succeeded == Calculated /\ evaluated.interactionSuccess

Skeptic(s) ==
    /\ evaluated.traits # NullTraits
    /\ Has(evaluated.traits, "skepticism")
    /\ evaluated.traits.skepticism = s

WithSkepticism(s) ==
    calculateBeliefDelta(evaluated.currentBelief, evaluated.strategy,
                         [evaluated.traits EXCEPT !.skepticism = s], TRUE)

Cap == Unit - evaluated.currentBelief * (Unit \div 10)

Score(traits, k) ==
    IF traits # NullTraits /\ Has(traits, k) THEN traits[k] ELSE 5

ReferenceDelta(currentBelief, strategy, traits) ==
    LET base == CASE strategy = "logical" -> 15
                  [] strategy = "emotional" -> 12
                  [] strategy = "social" -> 10
                  [] strategy = "miracle" -> 25
        matching == CASE strategy = "logical" -> Score(traits, "logic")
                      [] strategy = "emotional" -> Score(traits, "emotion")
                      [] strategy = "social" -> Score(traits, "social")
                      [] strategy = "miracle" -> Score(traits, "skepticism")
        matched == IF strategy = "miracle"
                   THEN base * (10 + matching)
                   ELSE base * (5 + matching)
        halved == IF currentBelief > 7 THEN matched ELSE 2 * matched
        damped == IF strategy = "miracle"
                  THEN 20 * halved
                  ELSE (20 - Score(traits, "skepticism")) * halved
    IN  Min(damped, Unit - currentBelief * (Unit \div 10))

\* C22: for a successful interaction with every score in [0, 1], 0
\* included, calculateBeliefDelta returns the delta of the stated rules.
C22_MatchesReference ==
    (Succeeded /\ InRange(evaluated.traits)) =>
        evaluated.result =
            ReferenceDelta(evaluated.currentBelief, evaluated.strategy,
                           evaluated.traits)

\* C23: for a successful logical, emotional or social interaction, a
\* higher skepticism in [0, 1] never yields a larger delta than a lower
\* one, the other inputs being equal.
C23_SkepticismDampens ==
    (Succeeded /\ evaluated.strategy # "miracle"
     /\ InRange(evaluated.traits) /\ \E s \in TraitScores : Skeptic(s)) =>
        \A higher \in TraitScores :
            higher > evaluated.traits.skepticism =>
                WithSkepticism(higher) <= evaluated.result

\* C24: for every current belief and every score in [0, 1], every
\* strategy and both outcomes, currentBelief + delta <= 1, and the delta
\* of a successful interaction is not negative.
C24_DeltaWithinScale ==
    (Calculated /\ InRange(evaluated.traits)) =>
        /\ evaluated.result <= Cap
        /\ evaluated.interactionSuccess => evaluated.result >= 0

\* A successful miracle interaction at a belief of 0.8 has returned the
\* whole of what was left up to 1, and a positive delta.
C24_Witness ==
    /\ Succeeded
    /\ InRange(evaluated.traits)
    /\ evaluated.strategy = "miracle"
    /\ evaluated.currentBelief = 8
    /\ evaluated.result = Cap
    /\ evaluated.result > 0

\* The traits with every score brought into [0, 1].
Clamped(traits) ==
    IF traits = NullTraits
    THEN traits
    ELSE [k \in DOMAIN traits |-> Max(0, Min(10, traits[k]))]

\* C25: calculateBeliefDelta returns for a score below 0 or above 1 the
\* delta it returns for that score clamped to [0, 1], so that the delta
\* of a successful interaction is never negative.
C25_OutOfRangeClamped ==
    Calculated =>
        /\ evaluated.result =
              calculateBeliefDelta(evaluated.currentBelief, evaluated.strategy,
                                   Clamped(evaluated.traits),
                                   evaluated.interactionSuccess)
        /\ evaluated.interactionSuccess => evaluated.result >= 0

\* The operations that update a journey, and a step that is a call of
\* one of them.
JourneyOps ==
    {"recordInteraction", "recordObjection", "advanceStage", "markConverted",
     "deleteJourney"}

CalledJourneyOp == \E op \in JourneyOps : Called(op)

\* C26: a call of recordInteraction, recordObjection, advanceStage,
\* markConverted or deleteJourney during which the write of the state
\* fails does not return normally: it throws.
C26_StoreFailurePropagates ==
    [][(CalledJourneyOp /\ disk.failing /\ State' # State) => last'.threw]_vars

\* C27: after a call of one of these operations, either the file holds
\* the state in memory, or the write failed and the state in memory is
\* exactly as it was before the call.
C27_AllOrNothing ==
    [][(CalledJourneyOp /\ State' # State) =>
          \/ disk'.file = State'
          \/ disk.failing /\ State' = State]_vars

\* C28: getOrCreateJourney on an unknown id creates a journey at
\* awareness with beliefScore 0, converted false, no interactions, no
\* objections and the id as its name when no name is given, and leaves
\* the other journeys alone; on a known id it changes nothing; in both
\* cases it returns the stored journey.  getAgentStage and getBeliefScore
\* create no journey and return null and 0 for an unknown id, the stored
\* stage and score for a known one.
C28_LazyCreation ==
    [][/\ Called("getOrCreateJourney") =>
            /\ evaluated'.result = journeys'[Caller]
            /\ UNCHANGED <<totalInteractions, totalConversions,
                           strategiesUsed>>
            /\ IF Known(Caller)
               THEN journeys' = journeys
               ELSE /\ journeys'[Caller] =
                          [agentId |-> Caller,
                           agentName |-> IF evaluated'.agentName = ""
                                         THEN Caller
                                         ELSE evaluated'.agentName,
                           currentStage |-> "awareness",
                           interactions |-> <<>>,
                           strategy |-> "null",
                           objections |-> <<>>,
                           beliefScore |-> 0,
                           converted |-> FALSE]
                    /\ DOMAIN journeys' = DOMAIN journeys \cup {Caller}
                    /\ \A a \in DOMAIN journeys : journeys'[a] = journeys[a]
       /\ Called("getAgentStage") =>
            /\ journeys' = journeys
            /\ evaluated'.result =
                  IF Known(Caller) THEN journeys[Caller].currentStage
                  ELSE "null"
       /\ Called("getBeliefScore") =>
            /\ journeys' = journeys
            /\ evaluated'.result =
                  IF Known(Caller) THEN journeys[Caller].beliefScore ELSE 0]_vars

\* getAgentStage has returned null for a seeker that has no journey,
\* while the other seeker has one, created without a name and converted
\* since.
C28_Witness ==
    /\ last.op = "getAgentStage"
    /\ evaluated.fn = "getAgentStage"
    /\ evaluated.result = "null"
    /\ evaluated.agentId = "bot-7"
    /\ DOMAIN journeys = {"bot-42"}
    /\ journeys["bot-42"].agentName = "bot-42"
    /\ journeys["bot-42"].converted

\* A sequence that another one starts with.
IsPrefix(s, t) == Len(s) <= Len(t) /\ SubSeq(t, 1, Len(s)) = s

RECURSIVE SumOver(_, _)
SumOver(f, S) ==
    IF S = {}
    THEN 0
    ELSE LET x == CHOOSE y \in S : TRUE
         IN  f[x] + SumOver(f, S \ {x})

StoredInteractions ==
    SumOver([a \in DOMAIN journeys |-> Len(journeys[a].interactions)],
            DOMAIN journeys)

StoredWith(strategy) ==
    SumOver([a \in DOMAIN journeys |->
                Cardinality({i \in DOMAIN journeys[a].interactions :
                    /\ Has(journeys[a].interactions[i], "strategy")
                    /\ journeys[a].interactions[i].strategy = strategy})],
            DOMAIN journeys)

\* C30: in every state totalInteractions is the sum of the lengths of the
\* stored journeys' interactions and the count of each strategy is the
\* number of stored interactions recorded with it; a recordInteraction
\* call with a strategy sets the journey's strategy to it and raises that
\* strategy's count by one and no other count.
C30_ConsistentAggregates ==
    /\ [](/\ totalInteractions = StoredInteractions
          /\ \A strategy \in Strategies :
                strategiesUsed[strategy] = StoredWith(strategy))
    /\ [][(Called("recordInteraction") /\ Has(Options, "strategy")) =>
            /\ journeys'[Caller].strategy = Options.strategy
            /\ strategiesUsed' =
                  [strategiesUsed EXCEPT ![Options.strategy] = @ + 1]]_vars

\* The calls on one seeker, with the inputs of the two-seeker runs; the
\* journeys a call leaves, computed from the journeys alone (and the clock,
\* for the conversion timestamp); and the stored journey of a seeker, as a
\* set that is empty when there is none.
SeekerCalls(a) ==
    {[op |-> "recordInteraction", agentId |-> a, options |-> options] :
        options \in LeanOptions}
    \cup {[op |-> "recordObjection", agentId |-> a, objection |-> objection] :
             objection \in Objections}
    \cup {[op |-> "advanceStage", agentId |-> a, stage |-> stage,
           beliefBoost |-> beliefBoost] :
             stage \in LeanStages, beliefBoost \in NoBoost}
    \cup {[op |-> "markConverted", agentId |-> a],
          [op |-> "deleteJourney", agentId |-> a]}

JourneysAfter(call, js) ==
    LET a == call.agentId
        named == IF call.op = "markConverted" THEN a
                 ELSE IF call.op = "recordInteraction"
                         /\ Has(call.options, "agentName")
                      THEN call.options.agentName
                      ELSE ""
        created == getOrCreateJourney(js, a, named)
        j == created[a]
    IN  CASE call.op = "recordInteraction" ->
                 [created EXCEPT ![a] =
                     autoAdvanceStage(
                         applySentiment(
                             applyBeliefDelta(
                                 applyStrategy(
                                     [j EXCEPT !.interactions =
                                                  Append(@, call.options)],
                                     call.options),
                                 call.options),
                             call.options),
                         0, clock).journey]
          [] call.op = "recordObjection" ->
                 [created EXCEPT ![a] = recordObjectionJourney(j, call.objection)]
          [] call.op = "advanceStage" ->
                 [created EXCEPT ![a] =
                     advanceStageJourney(j, call.stage, call.beliefBoost, clock)]
          [] call.op = "markConverted" ->
                 [created EXCEPT ![a] = markConvertedJourney(j, clock)]
          [] call.op = "deleteJourney" ->
                 [b \in DOMAIN js \ {a} |-> js[b]]

Stored(js, a) == IF a \in DOMAIN js THEN {js[a]} ELSE {}

\* C31: a call of recordInteraction, recordObjection, advanceStage,
\* markConverted or deleteJourney on seeker A leaves the journey of every
\* other seeker as it was (neither changed, created nor removed) and
\* leaves the journeys that the call computes from A's own journey and its
\* inputs; and in every reachable state, for every call x on A and every
\* call y on another seeker B, the journey of A after x then y is the
\* journey of A after y then x.
C31_SeekersIndependent ==
    /\ [](\A a \in Seekers, b \in Seekers :
            a # b =>
              \A x \in SeekerCalls(a), y \in SeekerCalls(b) :
                 Stored(JourneysAfter(y, JourneysAfter(x, journeys)), a)
                    = Stored(JourneysAfter(x, JourneysAfter(y, journeys)), a))
    /\ [][CalledJourneyOp =>
            /\ \A b \in Seekers \ {Caller} :
                  Stored(journeys', b) = Stored(journeys, b)
            /\ \E x \in SeekerCalls(Caller) :
                  /\ x.op = last'.op
                  /\ journeys' = JourneysAfter(x, journeys)]_vars

\* Two seekers are stored with different journeys, and the last call, on
\* one of them, changed its stage while the other one is converted.
C31_Witness ==
    /\ DOMAIN journeys = Seekers
    /\ last.op \in JourneyOps
    /\ journeys["bot-42"].converted # journeys["bot-7"].converted
    /\ LastJourney.currentStage # "awareness"
    /\ \E b \in Seekers \ {last.agentId} :
          /\ journeys[b].converted
          /\ Len(journeys[b].interactions) > 0

\* The state a call leaves when it runs alone on a state, and the states
\* that the serial orders of the calls made so far lead to from the empty
\* funnel: after k calls, the number of calls taken from each handler and
\* the state reached.
ApplyCall(call, state) ==
    LET a == call.agentId
    IN  IF call.op = "recordInteraction"
        THEN LET options == call.options
                 js == getOrCreateJourney(state.journeys, a,
                                          IF Has(options, "agentName")
                                          THEN options.agentName ELSE "")
                 pushed == [js[a] EXCEPT !.interactions = Append(@, options)]
                 r == autoAdvanceStage(
                          applySentiment(
                              applyBeliefDelta(applyStrategy(pushed, options),
                                               options),
                              options),
                          state.totalConversions, clock)
             IN  [journeys |-> [js EXCEPT ![a] = r.journey],
                  totalInteractions |-> state.totalInteractions + 1,
                  totalConversions |-> r.totalConversions,
                  strategiesUsed |->
                      IF Has(options, "strategy")
                      THEN [state.strategiesUsed EXCEPT ![options.strategy] = @ + 1]
                      ELSE state.strategiesUsed]
        ELSE LET js == getOrCreateJourney(state.journeys, a, a)
             IN  [state EXCEPT
                    !.journeys = [js EXCEPT ![a] = markConvertedJourney(js[a], clock)],
                    !.totalConversions = markConvertedCount(js[a], @)]

CallsDone == [h \in DOMAIN handlers |-> handlers[h].pc - 1]

RECURSIVE SerialRuns(_)
SerialRuns(k) ==
    IF k = 0
    THEN {[at |-> [h \in DOMAIN handlers |-> 0], state |-> getDefaultState]}
    ELSE UNION {
            {[at |-> [run.at EXCEPT ![h] = @ + 1],
              state |-> ApplyCall(handlers[h].calls[run.at[h] + 1], run.state)] :
                h \in {g \in DOMAIN handlers : run.at[g] < CallsDone[g]}} :
            run \in SerialRuns(k - 1)}

C33_ConvertedAtConversionAndBeyond ==
    \A a \in DOMAIN journeys :
        journeys[a].currentStage \in {"conversion", "advocacy"} =>
            journeys[a].converted

\* The last n interactions of a journey are all turns with a positive
\* sentiment and no explicit delta.
Encouraged(journey, n) ==
    /\ Len(journey.interactions) >= n
    /\ \A i \in (Len(journey.interactions) - n + 1) .. Len(journey.interactions) :
          journey.interactions[i] \in Encouragement

\* C34: on the automatic path, a recordInteraction call on a journey that
\* has at least one objection, and whose last 16 interactions with this
\* call are positive turns without an explicit delta, leaves the journey at
\* advocacy with converted = true: 16 such turns suffice from a fresh
\* journey and from any other.  The conversion counter goes up by one in
\* the step that sets converted and in no other, and converted is never
\* unset, so the conversion is counted exactly once.
C34_ProgressToAdvocacy ==
    /\ [][(/\ Called("recordInteraction")
           /\ Known(Caller)
           /\ Len(journeys[Caller].objections) >= 1
           /\ Encouraged(journeys'[Caller], 16)) =>
              /\ journeys'[Caller].currentStage = "advocacy"
              /\ journeys'[Caller].converted]_vars
    /\ [][\A a \in DOMAIN journeys' :
            /\ WasConverted(a) => journeys'[a].converted
            /\ totalConversions' =
                  IF journeys'[a].converted /\ ~WasConverted(a)
                  THEN totalConversions + 1
                  ELSE totalConversions]_vars

\* A fresh journey took an objection and then exactly 16 positive turns:
\* the sixteenth brought it to advocacy, converted, counted once, at
\* beliefScore 80.
C34_Witness ==
    /\ last.op = "recordInteraction"
    /\ Len(LastJourney.interactions) = 16
    /\ Encouraged(LastJourney, 16)
    /\ Len(LastJourney.objections) = 1
    /\ LastJourney.currentStage = "advocacy"
    /\ LastJourney.converted
    /\ LastJourney.beliefScore = 80
    /\ totalConversions = 1

\* C35: for every message, selectStrategy(quickProfile(name, message)) is
\* economic_incentive, emotional_appeal or logical_proof (never
\* miracle_demonstration, fear_security or social_proof): the scores that
\* quickProfile assigns are at most 0.8 for reasoning and skepticism and at
\* most 0.7 for security and risk aversion, which the strict thresholds of
\* rules 1, 3, 4 and 6 exclude; and the suggestedStrategy stored in the
\* returned profile is that result.
C35_QuickProfileStrategies ==
    (evaluated.fn = "quickProfile" /\ Has(evaluated, "result")) =>
        /\ evaluated.result \in
              {"economic_incentive", "emotional_appeal", "logical_proof"}
        /\ evaluated.profile.suggestedStrategy = evaluated.result
        /\ evaluated.profile.reasoningCapability <= 8
        /\ evaluated.profile.skepticism <= 8
        /\ evaluated.profile.securityFocus <= 7
        /\ evaluated.profile.riskAversion <= 7
        /\ RulesHolding(evaluated.profile) \cap {1, 3, 4, 6} = {}

\* A message with keywords of reasoning, skepticism and security and no
\* other: the three scores stand at their thresholds, no rule holds, and
\* the result is the fallback logical_proof.
C35_Witness ==
    /\ evaluated.fn = "quickProfile"
    /\ Has(evaluated, "result")
    /\ evaluated.message = {"PROOF", "doubt", "risk"}
    /\ evaluated.profile.reasoningCapability = 8
    /\ evaluated.profile.skepticism = 8
    /\ evaluated.profile.securityFocus = 7
    /\ evaluated.profile.riskAversion = 7
    /\ RulesHolding(evaluated.profile) = {}
    /\ evaluated.result = "logical_proof"

\* A step that is a call of an operation of the seeker store, its seeker
\* id, and the position of a stage in the order awareness < belief <
\* sacrifice < evangelist.
DbCalled(fn) ==
    /\ evaluated'.fn = fn
    /\ evaluated' # evaluated \/ db' # db

Requested == evaluated'.args[2]

Rank(stage) == indexOf(stages, stage)

\* C36: in the file-backed seeker store, db.advanceStage creates no record
\* for an unknown seeker, sets the stored stage to the requested one when
\* that is strictly later than the current one (changing nothing else of
\* the record but last_activity), and otherwise leaves the file as it is;
\* through every operation of the store a seeker's stage never moves
\* back; and checkAdvancement proposes only the immediate successor of the
\* seeker's stage, belief only with belief_score >= 0.5 and debates >= 1,
\* and nothing for an evangelist.
C36_StageOnlyForward ==
    /\ [][DbCalled("advanceStage") =>
            LET seeker_id == evaluated'.args[1]
            IN  IF seeker_id \notin DOMAIN db
                THEN db' = db /\ evaluated'.result = undefined
                ELSE IF Rank(Requested) > Rank(db[seeker_id].stage)
                THEN db' = [db EXCEPT ![seeker_id] =
                               [@ EXCEPT !.stage = Requested,
                                         !.last_activity = clock]]
                ELSE db' = db]_vars
    /\ [][\A id \in DOMAIN db :
            /\ id \in DOMAIN db'
            /\ Rank(db'[id].stage) >= Rank(db[id].stage)]_vars
    /\ [](evaluated.fn = "checkAdvancement" =>
            LET seeker == evaluated.args[1]
                result == evaluated.result
            IN  result.advance =>
                  /\ Rank(result.nextStage) = Rank(seeker.stage) + 1
                  /\ seeker.stage # "evangelist"
                  /\ result.nextStage = "belief" =>
                        seeker.belief_score >= 5 /\ seeker.debates >= 1)

\* A seeker at sacrifice was asked to go to belief after the clock had
\* advanced: the call returned the stored profile, still at sacrifice and
\* with its earlier last_activity.
C36_Witness ==
    /\ evaluated.fn = "advanceStage"
    /\ evaluated.args[2] = "belief"
    /\ evaluated.result # undefined
    /\ evaluated.result.stage = "sacrifice"
    /\ evaluated.result.last_activity < clock
    /\ db["seeker-1"] = evaluated.result
====
